---- MODULE Spec2Model ----
(***************************************************************************)
(* Sphere intersection viewer (React + three.js).                          *)
(*                                                                         *)
(* The geometry of Scene's useMemo callback is evaluated in JavaScript     *)
(* Numbers, i.e. IEEE-754 binary64 with round-to-nearest-even after every  *)
(* operation.  The model keeps that arithmetic: a Number is a record       *)
(*   [s |-> sign, m |-> 53-bit significand, e |-> exponent]                *)
(* of value s * m * 2^e, the significand being a natural number written    *)
(* little-endian in limbs of LimbBits bits.  The values the program        *)
(* reaches are far from the overflow and subnormal ranges, so the exponent *)
(* is unbounded; -0 is identified with +0 (they compare equal and the      *)
(* program never divides by a zero).                                       *)
(***************************************************************************)
EXTENDS Integers, Sequences, FiniteSets

\* ------------------------------------------------------------------------
\* Natural numbers of arbitrary size (little-endian limb sequences, no
\* leading zero limb; zero is << >>)
\* ------------------------------------------------------------------------
LimbBits == 15
Base == 2 ^ LimbBits

Limb(a, i) == IF i <= Len(a) THEN a[i] ELSE 0

RECURSIVE BNorm(_)
BNorm(a) ==
  IF a = << >> THEN a
  ELSE IF a[Len(a)] = 0 THEN BNorm(SubSeq(a, 1, Len(a) - 1)) ELSE a

RECURSIVE BFromNat(_)
BFromNat(n) == IF n = 0 THEN << >> ELSE <<n % Base>> \o BFromNat(n \div Base)

RECURSIVE AddFrom(_, _, _, _)
AddFrom(a, b, i, c) ==
  IF i > Len(a) /\ i > Len(b)
  THEN IF c = 0 THEN << >> ELSE <<c>>
  ELSE LET s == Limb(a, i) + Limb(b, i) + c
       IN  <<s % Base>> \o AddFrom(a, b, i + 1, s \div Base)

BAdd(a, b) == BNorm(AddFrom(a, b, 1, 0))

\* a - b for a >= b
RECURSIVE SubFrom(_, _, _, _)
SubFrom(a, b, i, c) ==
  IF i > Len(a) THEN << >>
  ELSE LET s == a[i] - Limb(b, i) - c
       IN  IF s < 0 THEN <<s + Base>> \o SubFrom(a, b, i + 1, 1)
                    ELSE <<s>> \o SubFrom(a, b, i + 1, 0)

BSub(a, b) == BNorm(SubFrom(a, b, 1, 0))

RECURSIVE CmpFrom(_, _, _)
CmpFrom(a, b, i) ==
  IF i = 0 THEN 0
  ELSE IF a[i] < b[i] THEN -1
  ELSE IF a[i] > b[i] THEN 1
  ELSE CmpFrom(a, b, i - 1)

\* -1, 0, 1 as a < b, a = b, a > b
BCmp(a, b) ==
  IF Len(a) < Len(b) THEN -1
  ELSE IF Len(a) > Len(b) THEN 1
  ELSE CmpFrom(a, b, Len(a))

RECURSIVE MulSmallFrom(_, _, _, _)
MulSmallFrom(a, k, i, c) ==
  IF i > Len(a)
  THEN IF c = 0 THEN << >> ELSE <<c>>
  ELSE LET s == a[i] * k + c
       IN  <<s % Base>> \o MulSmallFrom(a, k, i + 1, s \div Base)

\* a * k for 0 <= k < Base
BMulSmall(a, k) == BNorm(MulSmallFrom(a, k, 1, 0))

RECURSIVE MulFrom(_, _, _)
MulFrom(a, b, i) ==
  IF i > Len(b) THEN << >>
  ELSE AddFrom(MulSmallFrom(a, b[i], 1, 0), <<0>> \o MulFrom(a, b, i + 1), 1, 0)

BMul(a, b) == BNorm(MulFrom(a, b, 1))

\* a * 2^k
BShl(a, k) ==
  IF a = << >> THEN a
  ELSE [i \in 1..(k \div LimbBits) |-> 0] \o BMulSmall(a, 2 ^ (k % LimbBits))

\* floor(x / 2^r) for r < LimbBits
ShrBits(x, r) ==
  BNorm([i \in 1..Len(x) |->
           (x[i] \div (2 ^ r)) + (Limb(x, i + 1) % (2 ^ r)) * (2 ^ (LimbBits - r))])

\* floor(a / 2^k)
BShr(a, k) ==
  ShrBits(IF k \div LimbBits >= Len(a) THEN << >> ELSE SubSeq(a, k \div LimbBits + 1, Len(a)),
          k % LimbBits)

RECURSIVE BitsOf(_)
BitsOf(n) == IF n = 0 THEN 0 ELSE 1 + BitsOf(n \div 2)

BitLen(a) == IF a = << >> THEN 0 ELSE LimbBits * (Len(a) - 1) + BitsOf(a[Len(a)])

IsOdd(a) == a # << >> /\ a[1] % 2 = 1

\* ------------------------------------------------------------------------
\* binary64
\* ------------------------------------------------------------------------
Precision == 53

Zero == [s |-> 1, m |-> << >>, e |-> 0]

\* the result of a division by zero (Infinity or NaN); the program never
\* produces it, see NoDivisionByZero
NonFinite == [s |-> 0, m |-> << >>, e |-> 0]

IsFinite(a) == a.s # 0
IsZero(a) == a.s # 0 /\ a.m = << >>

\* s * q * 2^e for q <= 2^Precision: a carry out of the rounding renormalises
RoundCarry(s, q, e) ==
  IF BitLen(q) > Precision
  THEN [s |-> s, m |-> BShr(q, 1), e |-> e + 1]
  ELSE [s |-> s, m |-> q, e |-> e]

\* q rounded up when the dropped part is above one half (c = 1), or is one
\* half (c = 0) and either sticky or q is odd
RoundHalfEven(s, q, e, c, sticky) ==
  RoundCarry(s, IF c = 1 \/ (c = 0 /\ (sticky \/ IsOdd(q))) THEN BAdd(q, <<1>>) ELSE q, e)

\* n with its k low bits dropped, q = floor(n / 2^k)
RoundDrop(s, n, e, sticky, k, q) ==
  RoundHalfEven(s, q, e + k, BCmp(BSub(n, BShl(q, k)), BShl(<<1>>, k - 1)), sticky)

\* n of L bits
RoundBits(s, n, e, sticky, L) ==
  IF L <= Precision
  THEN [s |-> s, m |-> BShl(n, Precision - L), e |-> e - (Precision - L)]
  ELSE RoundDrop(s, n, e, sticky, L - Precision, BShr(n, L - Precision))

\* round-to-nearest, ties-to-even, of s * (n + f) * 2^e where 0 <= f < 1 and
\* sticky says f > 0
RoundToFloat(s, n, e, sticky) ==
  IF n = << >> THEN Zero ELSE RoundBits(s, n, e, sticky, BitLen(n))

FromInt(n) == RoundToFloat(IF n < 0 THEN -1 ELSE 1, BFromNat(IF n < 0 THEN -n ELSE n), 0, FALSE)

FNeg(a) == IF IsZero(a) \/ ~IsFinite(a) THEN a ELSE [a EXCEPT !.s = -a.s]

FAbs(a) == IF IsFinite(a) THEN [a EXCEPT !.s = 1] ELSE a

\* na * 2^b.e is |a|; c compares na with b.m
AddSigned(a, b, na, c) ==
  IF a.s = b.s THEN RoundToFloat(a.s, BAdd(na, b.m), b.e, FALSE)
  ELSE IF c = 0 THEN Zero
  ELSE IF c = 1 THEN RoundToFloat(a.s, BSub(na, b.m), b.e, FALSE)
  ELSE RoundToFloat(b.s, BSub(b.m, na), b.e, FALSE)

AddShifted(a, b, na) == AddSigned(a, b, na, BCmp(na, b.m))

\* |a| + |b| or |a| - |b| with the sign of the larger, for a.e >= b.e
AddAligned(a, b) ==
  IF a.e - b.e > Precision + 3 THEN a ELSE AddShifted(a, b, BShl(a.m, a.e - b.e))

FAdd(a, b) ==
  IF ~IsFinite(a) \/ ~IsFinite(b) THEN NonFinite
  ELSE IF IsZero(a) THEN b
  ELSE IF IsZero(b) THEN a
  ELSE IF a.e >= b.e THEN AddAligned(a, b) ELSE AddAligned(b, a)

FSub(a, b) == FAdd(a, FNeg(b))

FMul(a, b) ==
  IF ~IsFinite(a) \/ ~IsFinite(b) THEN NonFinite
  ELSE IF IsZero(a) \/ IsZero(b) THEN Zero
  ELSE RoundToFloat(a.s * b.s, BMul(a.m, b.m), a.e + b.e, FALSE)

\* nbits quotient bits of r / d (r < 2d), most significant first
RECURSIVE DivChunk(_, _, _, _)
DivChunk(r, d, nbits, acc) ==
  IF nbits = 0 THEN [q |-> acc, r |-> r]
  ELSE IF BCmp(r, d) >= 0
       THEN DivChunk(BMulSmall(BSub(r, d), 2), d, nbits - 1, 2 * acc + 1)
       ELSE DivChunk(BMulSmall(r, 2), d, nbits - 1, 2 * acc)

\* n more quotient limbs of r / b below the limbs qs
RECURSIVE DivLimbs(_, _, _, _)
DivLimb(b, c, n, qs) == DivLimbs(c.r, b, n - 1, <<c.q>> \o qs)
DivLimbs(r, b, n, qs) ==
  IF n = 0 THEN [q |-> BNorm(qs), sticky |-> r # << >>]
  ELSE DivLimb(b, DivChunk(r, b, LimbBits, 0), n, qs)

\* floor(a * 2^(4 * LimbBits - 1) / b) and whether the division is inexact,
\* for 53-bit a and b
DivMant(a, b) == DivLimbs(a, b, 4, << >>)

DivRound(s, d, e) == RoundToFloat(s, d.q, e, d.sticky)

FDiv(a, b) ==
  IF ~IsFinite(a) \/ ~IsFinite(b) \/ IsZero(b) THEN NonFinite
  ELSE IF IsZero(a) THEN Zero
  ELSE DivRound(a.s * b.s, DivMant(a.m, b.m), a.e - b.e - (4 * LimbBits - 1))

\* integer square root by the digit-by-digit method: x is the remainder,
\* res the partial root, j the exponent of the current power of four
RECURSIVE SqrtIter(_, _, _)
SqrtIter(x, res, j) ==
  IF j < 0 THEN [root |-> res, sticky |-> x # << >>]
  ELSE IF BCmp(x, BAdd(res, BShl(<<1>>, j))) >= 0
       THEN SqrtIter(BSub(x, BAdd(res, BShl(<<1>>, j))),
                     BAdd(BShr(res, 1), BShl(<<1>>, j)), j - 2)
       ELSE SqrtIter(x, BShr(res, 1), j - 2)

BSqrt(n) == SqrtIter(n, << >>, 2 * ((BitLen(n) - 1) \div 2))

SqrtRound(r, e) == RoundToFloat(1, r.root, e, r.sticky)

\* sqrt(a.m * 2^a.e) from the integer root of a.m * 2^k, a.e - k even
SqrtScaled(a, k) == SqrtRound(BSqrt(BShl(a.m, k)), (a.e - k) \div 2)

\* Math.sqrt of a >= 0
FSqrt(a) ==
  IF ~IsFinite(a) \/ a.s < 0 THEN NonFinite
  ELSE IF IsZero(a) THEN Zero
  ELSE SqrtScaled(a, IF a.e % 2 = 0 THEN Precision + 5 ELSE Precision + 4)

\* |x| < |y|
MagLt(x, y) ==
  IF IsZero(y) THEN FALSE
  ELSE IF IsZero(x) THEN TRUE
  ELSE x.e < y.e \/ (x.e = y.e /\ BCmp(x.m, y.m) < 0)

\* a < b
FLt(a, b) ==
  /\ IsFinite(a) /\ IsFinite(b)
  /\ IF IsZero(a) THEN (~IsZero(b) /\ b.s = 1)
     ELSE IF IsZero(b) THEN a.s = -1
     ELSE IF a.s # b.s THEN a.s = -1
     ELSE IF a.s = 1 THEN MagLt(a, b) ELSE MagLt(b, a)

FGt(a, b) == FLt(b, a)
FGe(a, b) == IsFinite(a) /\ IsFinite(b) /\ ~FLt(a, b)
FLe(a, b) == FGe(b, a)

\* Math.max(0, a)
FMax0(a) == IF ~IsFinite(a) THEN NonFinite ELSE IF FLt(a, Zero) THEN Zero ELSE a

\* ------------------------------------------------------------------------
\* THREE.Vector3 (the methods Scene calls, with three.js's evaluation order)
\* ------------------------------------------------------------------------
Vector3(x, y, z) == [x |-> x, y |-> y, z |-> z]

subVectors(a, b) == Vector3(FSub(a.x, b.x), FSub(a.y, b.y), FSub(a.z, b.z))

addVectors(a, b) == Vector3(FAdd(a.x, b.x), FAdd(a.y, b.y), FAdd(a.z, b.z))

multiplyScalar(v, k) == Vector3(FMul(v.x, k), FMul(v.y, k), FMul(v.z, k))

\* divideScalar(k) is multiplyScalar(1 / k)
divideScalar(v, k) == multiplyScalar(v, FDiv(FromInt(1), k))

lengthSq(v) == FAdd(FAdd(FMul(v.x, v.x), FMul(v.y, v.y)), FMul(v.z, v.z))

dot(a, b) == FAdd(FAdd(FMul(a.x, b.x), FMul(a.y, b.y)), FMul(a.z, b.z))

distanceToSquared(a, b) == lengthSq(subVectors(a, b))
distanceTo(a, b) == FSqrt(lengthSq(subVectors(a, b)))

crossVectorsWrongY(a, b) ==
  Vector3(FSub(FMul(a.y, b.z), FMul(a.z, b.y)),
          FSub(FMul(a.x, b.z), FMul(a.z, b.x)),
          FSub(FMul(a.x, b.y), FMul(a.y, b.x)))
crossVectors(a, b) ==
  Vector3(FSub(FMul(a.y, b.z), FMul(a.z, b.y)),
          FSub(FMul(a.z, b.x), FMul(a.x, b.z)),
          FSub(FMul(a.x, b.y), FMul(a.y, b.x)))

\* length || 1
OrOne(length) == IF IsZero(length) THEN FromInt(1) ELSE length

\* normalize() is divideScalar(length() || 1)
normalize(v) == divideScalar(v, OrOne(FSqrt(lengthSq(v))))

addScaledVector(a, v, k) ==
  Vector3(FAdd(a.x, FMul(v.x, k)), FAdd(a.y, FMul(v.y, k)), FAdd(a.z, FMul(v.z, k)))

\* ------------------------------------------------------------------------
\* Scene: the geometry memo
\* ------------------------------------------------------------------------
TOP_POINT_POS   == Vector3(FromInt(0), FromInt(8), FromInt(0))
LEFT_POINT_POS  == Vector3(FromInt(-8), FromInt(0), FromInt(0))
FRONT_POINT_POS == Vector3(FromInt(0), FromInt(0), FromInt(8))

\* the literal 1e-6
Epsilon == FDiv(FromInt(1), FromInt(10 ^ 6))

Two == FromInt(2)

\* d_12 < r1 + r2 && d_12 > Math.abs(r1 - r2)
CircleConditionNonStrict(d_12, r1, r2) ==
  FLe(d_12, FAdd(r1, r2)) /\ FGe(d_12, FAbs(FSub(r1, r2)))
CircleConditionNoAbs(d_12, r1, r2) ==
  FLt(d_12, FAdd(r1, r2)) /\ FGt(d_12, FSub(r1, r2))
CircleCondition(d_12, r1, r2) ==
  FLt(d_12, FAdd(r1, r2)) /\ FGt(d_12, FAbs(FSub(r1, r2)))

\* a = (r1 * r1 - r2 * r2 + d_12 * d_12) / (2 * d_12)
CenterOffsetSwapped(r1, r2, d_12) ==
  FDiv(FAdd(FSub(FMul(r2, r2), FMul(r1, r1)), FMul(d_12, d_12)), FMul(Two, d_12))
CenterOffset(r1, r2, d_12) ==
  FDiv(FAdd(FSub(FMul(r1, r1), FMul(r2, r2)), FMul(d_12, d_12)), FMul(Two, d_12))

\* the sphere-sphere block.  Besides exists, center and radius (the
\* quaternion only orients the drawn disk and is left out) the record
\* keeps the locals d_12 and a, and the divisors of the block's divisions.
circleAt(c1, c2, r1, d_12, a) ==
  [exists |-> TRUE,
   center |-> addVectors(c1, multiplyScalar(normalize(subVectors(c2, c1)), a)),
   radius |-> FSqrt(FMax0(FSub(FMul(r1, r1), FMul(a, a)))),
   d_12 |-> d_12, a |-> a, divisors |-> <<FMul(Two, d_12)>>]

circleOf(c1, c2, r1, r2, d_12) ==
  IF CircleCondition(d_12, r1, r2)
  THEN circleAt(c1, c2, r1, d_12, CenterOffset(r1, r2, d_12))
  ELSE [exists |-> FALSE, center |-> Vector3(Zero, Zero, Zero), radius |-> Zero,
        d_12 |-> d_12, a |-> Zero, divisors |-> << >>]

circleResult(c1, c2, r1, r2) == circleOf(c1, c2, r1, r2, distanceTo(c1, c2))

\* discriminant >= 0
HasRealRootStrict(discriminant) == FGt(discriminant, Zero)
HasRealRoot(discriminant) == FGe(discriminant, Zero)

\* L_dir_sq > 1e-6
PlanesNotParallelAlways(L_dir_sq) == TRUE
PlanesNotParallel(L_dir_sq) == FGt(L_dir_sq, Epsilon)

\* the offset of the radical plane of spheres (ca, ra) and (cb, rb):
\* (ra * ra - rb * rb - ca.lengthSq() + cb.lengthSq()) / 2
RadicalOffset(ca, cb, ra, rb) ==
  FDiv(FAdd(FSub(FSub(FMul(ra, ra), FMul(rb, rb)), lengthSq(ca)), lengthSq(cb)), Two)

\* the three-sphere block: points is pointsResult; the other fields are the
\* locals of the branch taken (solved says the radical line was computed)
\* p1, and p2 when discriminant > 1e-6
rootPoints(L_dir, A, L_p0, B, discriminant, sqrt_disc) ==
  IF FGt(discriminant, Epsilon)
  THEN <<addScaledVector(L_p0, L_dir, FDiv(FAdd(FNeg(B), sqrt_disc), FMul(Two, A))),
         addScaledVector(L_p0, L_dir, FDiv(FSub(FNeg(B), sqrt_disc), FMul(Two, A)))>>
  ELSE <<addScaledVector(L_p0, L_dir, FDiv(FAdd(FNeg(B), sqrt_disc), FMul(Two, A)))>>

\* the branch on the discriminant
linePoints(L_dir, A, L_p0, B, discriminant) ==
  IF HasRealRoot(discriminant)
  THEN [points |-> rootPoints(L_dir, A, L_p0, B, discriminant, FSqrt(discriminant)),
        solved |-> TRUE, L_dir |-> L_dir, L_dir_sq |-> A, L_p0 |-> L_p0, B |-> B,
        discriminant |-> discriminant, divisors |-> <<A, FMul(Two, A), FMul(Two, A)>>]
  ELSE [points |-> << >>,
        solved |-> TRUE, L_dir |-> L_dir, L_dir_sq |-> A, L_p0 |-> L_p0, B |-> B,
        discriminant |-> discriminant, divisors |-> <<A>>]

\* discriminant = B * B - 4 * A * C
quadratic(L_dir, A, L_p0, B, C) ==
  linePoints(L_dir, A, L_p0, B, FSub(FMul(B, B), FMul(FMul(FromInt(4), A), C)))

\* the line L_p0 + t * L_dir cut by sphere 1: A = L_dir_sq,
\* B = 2 * delta_p.dot(L_dir), C = delta_p.lengthSq() - r1 * r1
lineSphere(r1, L_dir, L_dir_sq, L_p0, delta_p) ==
  quadratic(L_dir, L_dir_sq, L_p0, FMul(Two, dot(delta_p, L_dir)),
            FSub(lengthSq(delta_p), FMul(r1, r1)))

lineFrom(c1, r1, L_dir, L_dir_sq, L_p0) ==
  lineSphere(r1, L_dir, L_dir_sq, L_p0, subVectors(L_p0, c1))

\* the branch on L_dir_sq; L_p0 = (tmp1 + tmp2) / L_dir_sq
radicalLine(c1, r1, n_A, d_A, n_B, d_B, L_dir, L_dir_sq) ==
  IF PlanesNotParallel(L_dir_sq)
  THEN lineFrom(c1, r1, L_dir, L_dir_sq,
                divideScalar(addVectors(multiplyScalar(crossVectors(n_B, L_dir), d_A),
                                        multiplyScalar(crossVectors(L_dir, n_A), d_B)),
                             L_dir_sq))
  ELSE [points |-> << >>, solved |-> FALSE, L_dir |-> L_dir, L_dir_sq |-> L_dir_sq,
        L_p0 |-> Vector3(Zero, Zero, Zero), B |-> Zero, discriminant |-> Zero,
        divisors |-> << >>]

radicalDirection(c1, r1, n_A, d_A, n_B, d_B, L_dir) ==
  radicalLine(c1, r1, n_A, d_A, n_B, d_B, L_dir, lengthSq(L_dir))

radicalPlanes(c1, r1, n_A, d_A, n_B, d_B) ==
  radicalDirection(c1, r1, n_A, d_A, n_B, d_B, crossVectors(n_A, n_B))

pointsResult(c1, c2, c3, r1, r2, r3) ==
  radicalPlanes(c1, r1, subVectors(c2, c1), RadicalOffset(c1, c2, r1, r2),
                subVectors(c3, c1), RadicalOffset(c1, c3, r1, r3))

\* the value of Scene's second useMemo for the anchors c1, c2, c3
geometryRecord(radiusTop, radiusLeft, radiusFront, circleResult_, pointsResult_) ==
  [radiusTop |-> radiusTop, radiusLeft |-> radiusLeft, radiusFront |-> radiusFront,
   intersectionCircle |-> circleResult_, intersectionPoints |-> pointsResult_.points,
   trilateration |-> pointsResult_]

geometryOfRadii(c1, c2, c3, radiusTop, radiusLeft, radiusFront) ==
  geometryRecord(radiusTop, radiusLeft, radiusFront,
                 circleResult(c1, c2, radiusTop, radiusLeft),
                 pointsResult(c1, c2, c3, radiusTop, radiusLeft, radiusFront))

SceneGeometry(c1, c2, c3, movablePointVec) ==
  geometryOfRadii(c1, c2, c3, distanceTo(c1, movablePointVec),
                  distanceTo(c2, movablePointVec), distanceTo(c3, movablePointVec))

\* ------------------------------------------------------------------------
\* App, the three Slider controls and React's hooks
\* ------------------------------------------------------------------------
VARIABLES
  anchors,    \* <<c1, c2, c3>>: the sphere centres the memo callback reads
  sliders,    \* position of each range input, in steps of 0.1 (its value * 10)
  point,      \* App's useState value {x, y, z}; id is the object's identity
  memoVec,    \* Scene's first useMemo (movablePointVec), deps [movablePoint]
  memoGeom,   \* Scene's second useMemo (the geometry), deps [movablePointVec]
  pending     \* a render of App and Scene is scheduled

vars == <<anchors, sliders, point, memoVec, memoGeom, pending>>

\* bounds of the exploration
GridN == 2        \* slider positions sampled per half axis
MaxChanges == 3   \* slider changes in one run

Axes == {"x", "y", "z"}

\* step={0.1}: slider positions per unit of length
StepsPerUnit == 10

\* min={-10} max={10}: the positions of a range input
SliderMin == -10 * StepsPerUnit
SliderMax == 10 * StepsPerUnit

\* n positions spread over each half of the slider range
SliderStops(n) == {(k * SliderMax) \div n : k \in -n..n} \cap (SliderMin..SliderMax)

\* parseFloat(e.target.value): the Number nearest to the decimal t / 10
parseFloat(t) == FDiv(FromInt(t), FromInt(StepsPerUnit))

ProgramAnchors == <<TOP_POINT_POS, LEFT_POINT_POS, FRONT_POINT_POS>>

\* React compares each dependency with Object.is: a memo is recomputed when
\* the dependency is another object than the one it was computed for
DepsChangedNever(prev, next) == FALSE
DepsChanged(prev, next) == prev # next

NoMemo == [valid |-> FALSE, dep |-> 0, id |-> 0, value |-> << >>]

\* useMemo(() => new THREE.Vector3(...), [movablePoint])
useMemoVec(memo, movablePoint) ==
  IF ~memo.valid \/ DepsChanged(memo.dep, movablePoint.id)
  THEN [valid |-> TRUE, dep |-> movablePoint.id, id |-> movablePoint.id,
        value |-> Vector3(movablePoint.x, movablePoint.y, movablePoint.z)]
  ELSE memo

\* useMemo(() => { ... }, [movablePointVec])
useMemoGeom(memo, vec, cs) ==
  IF ~memo.valid \/ DepsChanged(memo.dep, vec.id)
  THEN [valid |-> TRUE, dep |-> vec.id, id |-> vec.id,
        value |-> SceneGeometry(cs[1], cs[2], cs[3], vec.value)]
  ELSE memo

PointAt(t, id) ==
  [x |-> parseFloat(t[1]), y |-> parseFloat(t[2]), z |-> parseFloat(t[3]), id |-> id]

SlidersAt(t) == [x |-> t[1], y |-> t[2], z |-> t[3]]

\* useState<Point3D>({ x: 0, y: 0, z: 0 }), before the first render
Init ==
  /\ anchors = ProgramAnchors
  /\ sliders = SlidersAt(<<0, 0, 0>>)
  /\ point = PointAt(<<0, 0, 0>>, 1)
  /\ memoVec = NoMemo
  /\ memoGeom = NoMemo
  /\ pending = TRUE

\* a Slider's onChange: handleSliderChange(axis, parseFloat(value)), which
\* sets a new point object and schedules a render.  React renders before
\* it delivers the next input event.
handleSliderChange(axis, t) ==
  /\ ~pending
  /\ point.id <= MaxChanges
  /\ t # sliders[axis]
  /\ sliders' = [sliders EXCEPT ![axis] = t]
  /\ point' = [point EXCEPT ![axis] = parseFloat(t), !.id = point.id + 1]
  /\ pending' = TRUE
  /\ UNCHANGED <<anchors, memoVec, memoGeom>>

\* a render of Scene with movablePoint = point
Scene ==
  /\ pending
  /\ memoVec' = useMemoVec(memoVec, point)
  /\ memoGeom' = useMemoGeom(memoGeom, memoVec', anchors)
  /\ pending' = FALSE
  /\ UNCHANGED <<anchors, sliders, point>>

AppTicks == {-80, 0, 80}

Next ==
  \/ \E axis \in Axes, t \in AppTicks : handleSliderChange(axis, t)
  \/ Scene

Spec == Init /\ [][Next]_vars

\* ---- Scene mounted with any movable point of the sample -----------------

\* positions where the spheres are tangent, a radius is zero, the movable
\* point lies in the plane of the anchors, or the circle centre leaves the
\* segment between the centres
SpecialPoints ==
  { <<0, 0, 0>>, <<0, 80, 0>>, <<-80, 0, 0>>, <<0, 0, 80>>,
    <<-40, 40, 0>>, <<10, 90, 0>>, <<-90, -10, 0>>, <<20, 100, 0>>,
    <<-80, -40, 0>>, <<-100, -100, 80>>, <<-100, -97, 77>>, <<-99, -95, 76>>,
    <<3, -7, 19>> }

GeomPoints == (SliderStops(GridN) \X SliderStops(GridN) \X SliderStops(GridN)) \cup SpecialPoints

InitGeom ==
  /\ anchors = ProgramAnchors
  /\ \E t \in GeomPoints : sliders = SlidersAt(t) /\ point = PointAt(t, 1)
  /\ memoVec = NoMemo
  /\ memoGeom = NoMemo
  /\ pending = TRUE

NextGeom == Scene

SpecGeom == InitGeom /\ [][NextGeom]_vars

\* ---- the same callback with the anchors as inputs -----------------------

IntVec(c) == Vector3(FromInt(c[1]), FromInt(c[2]), FromInt(c[3]))

\* the program's anchors, two collinear triples, a triple with c1 = c2 and
\* a triple in general position
AnchorTriples ==
  { <<<<0, 8, 0>>, <<-8, 0, 0>>, <<0, 0, 8>>>>,
    <<<<0, 0, 0>>, <<1, 1, 1>>, <<3, 3, 3>>>>,
    <<<<-8, 0, 0>>, <<0, 4, 0>>, <<4, 6, 0>>>>,
    <<<<0, 8, 0>>, <<0, 8, 0>>, <<0, 0, 8>>>>,
    <<<<3, 0, 0>>, <<0, 5, 1>>, <<-2, 0, -7>>>> }

InitAnchors ==
  /\ \E cs \in AnchorTriples : anchors = <<IntVec(cs[1]), IntVec(cs[2]), IntVec(cs[3])>>
  /\ \E t \in SpecialPoints \cup {<<30, 30, 30>>, <<0, 50, 10>>, <<40, 60, 0>>} :
       sliders = SlidersAt(t) /\ point = PointAt(t, 1)
  /\ memoVec = NoMemo
  /\ memoGeom = NoMemo
  /\ pending = TRUE

NextAnchors == Scene

SpecAnchors == InitAnchors /\ [][NextAnchors]_vars

\* ------------------------------------------------------------------------
\* Properties
\* ------------------------------------------------------------------------

\* the tolerance of the specification's properties, 1e-6 absolute
Tolerance == FDiv(FromInt(1), FromInt(10 ^ 6))

Within(a, b, tol) == FLe(FAbs(FSub(a, b)), tol)

VecWithin(u, v, tol) == Within(u.x, v.x, tol) /\ Within(u.y, v.y, tol) /\ Within(u.z, v.z, tol)

\* Scene has rendered the current point
Rendered == ~pending /\ memoVec.valid /\ memoGeom.valid

G == memoGeom.value
MovablePointVec == memoVec.value
Radius(i) == IF i = 1 THEN G.radiusTop ELSE IF i = 2 THEN G.radiusLeft ELSE G.radiusFront
Centers == anchors
Circle == G.intersectionCircle
Points == G.intersectionPoints
Tri == G.trilateration
Square(a) == FMul(a, a)

\* C1: every radius is non-negative and is the distance from its anchor to
\* the movable point: radius_i^2 = |anchor_i - P|^2 up to the tolerance
RadiiAreDistances ==
  Rendered =>
    \A i \in 1..3 :
      /\ FGe(Radius(i), Zero)
      /\ Within(Square(Radius(i)), lengthSq(subVectors(Centers[i], MovablePointVec)), Tolerance)

\* a radius whose square has to be rounded
RadiiAreDistancesWitness ==
  /\ Rendered
  /\ anchors = ProgramAnchors
  /\ FGt(G.radiusTop, Zero)
  /\ Square(G.radiusTop) # lengthSq(subVectors(Centers[1], MovablePointVec))

\* C2: the circle of spheres 1 and 2 exists iff |r1 - r2| < d < r1 + r2,
\* both strict, the sum and the difference being those of the computed
\* radii; so it does not exist at equality nor for concentric spheres
CircleExistsIffStrict ==
  Rendered =>
    LET d  == distanceTo(Centers[1], Centers[2])
        r1 == G.radiusTop
        r2 == G.radiusLeft
    IN  /\ Circle.exists <=> (FLt(FAbs(FSub(r1, r2)), d) /\ FLt(d, FAdd(r1, r2)))
        /\ (d = FAdd(r1, r2) \/ d = FAbs(FSub(r1, r2)) \/ IsZero(d)) => ~Circle.exists

\* the computed radii add up to the distance of the centres exactly
CircleExistsIffStrictWitness ==
  /\ Rendered
  /\ ~IsZero(G.radiusTop) /\ ~IsZero(G.radiusLeft)
  /\ distanceTo(Centers[1], Centers[2]) = FAdd(G.radiusTop, G.radiusLeft)
  /\ ~Circle.exists

\* C3 as stated: when the circle exists its centre lies on the segment
\* between the two sphere centres, 0 <= a <= d
CenterOnSegment ==
  (Rendered /\ Circle.exists) => (FGe(Circle.a, Zero) /\ FLe(Circle.a, Circle.d_12))

\* C3 amended: when the circle exists its centre c1 + a * dir is the foot of
\* the perpendicular from the movable point on the line through the two
\* centres, a * d = (P - c1) . (c2 - c1), up to the tolerance
CenterIsFootOfPerpendicular ==
  (Rendered /\ Circle.exists) =>
    LET n    == subVectors(Centers[2], Centers[1])
        proj == dot(subVectors(MovablePointVec, Centers[1]), n)
        foot == addVectors(Centers[1], multiplyScalar(n, FDiv(proj, lengthSq(n))))
    IN  /\ Within(FMul(Circle.a, Circle.d_12), proj, Tolerance)
        /\ VecWithin(Circle.center, foot, Tolerance)

\* a circle whose centre lies beyond the second sphere centre
CenterIsFootOfPerpendicularWitness ==
  Rendered /\ Circle.exists /\ FGt(Circle.a, Circle.d_12)

\* C4: when the circle exists its radius h is strictly positive and solves
\* both sphere equations, h^2 = r1^2 - a^2 and h^2 = r2^2 - (d - a)^2
CircleSolvesBothSpheres ==
  (Rendered /\ Circle.exists) =>
    LET h == Circle.radius
        a == Circle.a
        d == Circle.d_12
    IN  /\ FGt(h, Zero)
        /\ Within(Square(h), FSub(Square(G.radiusTop), Square(a)), Tolerance)
        /\ Within(Square(h), FSub(Square(G.radiusLeft), Square(FSub(d, a))), Tolerance)

\* C5: every returned point lies on the three spheres,
\* |p - c_i|^2 = r_i^2 up to the tolerance
PointsOnAllSpheres ==
  Rendered =>
    \A k \in 1..Len(Points), i \in 1..3 :
      Within(lengthSq(subVectors(Points[k], Centers[i])), Square(Radius(i)), Tolerance)

\* the near-tangent branch: one point although the discriminant is not zero
PointsOnAllSpheresWitness ==
  Rendered /\ Len(Points) = 1 /\ FGt(Tri.discriminant, Zero)

ExactlyCollinear ==
  crossVectors(subVectors(Centers[2], Centers[1]), subVectors(Centers[3], Centers[1]))
    = Vector3(Zero, Zero, Zero)

\* C6: with exactly collinear anchors the solver returns no point and does
\* not divide by L_dir_sq
CollinearGivesNoPoints ==
  (Rendered /\ ExactlyCollinear) => (Points = << >> /\ Tri.divisors = << >>)

\* three distinct collinear anchors
CollinearGivesNoPointsWitness ==
  Rendered /\ ExactlyCollinear /\ Centers[1] # Centers[2] /\ Centers[2] # Centers[3]

NoDivisionByZero ==
  /\ \A k \in 1..Len(Circle.divisors) : IsFinite(Circle.divisors[k]) /\ ~IsZero(Circle.divisors[k])
  /\ \A k \in 1..Len(Tri.divisors) : IsFinite(Tri.divisors[k]) /\ ~IsZero(Tri.divisors[k])

\* C8: when the movable point is an anchor, that radius is 0, nothing is
\* divided by zero, the circle does not exist if the anchor is the first or
\* the second, and every returned point is that anchor up to the tolerance
ZeroRadiusAtAnchor ==
  Rendered =>
    \A i \in 1..3 :
      MovablePointVec = Centers[i] =>
        /\ Radius(i) = Zero
        /\ NoDivisionByZero
        /\ i \in {1, 2} => ~Circle.exists
        /\ \A k \in 1..Len(Points) : VecWithin(Points[k], Centers[i], Tolerance)

\* the movable point on the first anchor, one point returned
ZeroRadiusAtAnchorWitness ==
  Rendered /\ MovablePointVec = Centers[1] /\ Len(Points) = 1

\* C9: once rendered, the geometry in use is the geometry of the current
\* point, whatever the slider changes that led to it
GeometryOfCurrentPoint ==
  ~pending =>
    LET vec == Vector3(point.x, point.y, point.z)
    IN  /\ memoVec.valid /\ memoVec.value = vec
        /\ memoGeom.valid
        /\ memoGeom.value = SceneGeometry(anchors[1], anchors[2], anchors[3], vec)

\* back on the initial position after the point was moved away
GeometryOfCurrentPointWitness ==
  ~pending /\ point.id > 2 /\ sliders = SlidersAt(<<0, 0, 0>>)

\* -x + y + z = 8: the plane through (0,8,0), (-8,0,0) and (0,0,8)
InAnchorPlane == -sliders.x + sliders.y + sliders.z = 8 * StepsPerUnit

\* C10: the returned point set is never empty and contains the movable
\* point; it has one point iff the movable point lies in the plane of the
\* anchors and two otherwise; the initial point gives radii (8, 8, 8) and
\* two points
MovablePointIsFound ==
  Rendered =>
    /\ Len(Points) >= 1
    /\ \E k \in 1..Len(Points) : VecWithin(Points[k], MovablePointVec, Tolerance)
    /\ Len(Points) = 1 <=> InAnchorPlane
    /\ sliders = SlidersAt(<<0, 0, 0>>) =>
         /\ G.radiusTop = FromInt(8) /\ G.radiusLeft = FromInt(8) /\ G.radiusFront = FromInt(8)
         /\ Len(Points) = 2

====
